---- MODULE Spec2Model ----
(***************************************************************************)
(* Iterative compression for undirected feedback vertex set               *)
(* (algorithms/iterative_compression.py, class IterativeCompression).      *)
(*                                                                         *)
(* The program is a single-threaded recursion.  It is modelled as a call   *)
(* stack of frames over a heap of mutable multigraph objects: a frame      *)
(* names its graph by heap index, so passing a graph "directly" (aliasing) *)
(* and passing a copy are different things in the model, as in Python.     *)
(* Vertices are the integers 1..n and nodes() lists them in increasing     *)
(* order.                                                                  *)
(***************************************************************************)
EXTENDS Integers, Sequences, FiniteSets

\* ---------------------------------------------------------------- bounds
\* Largest number of vertices of a simple input graph.
MaxN == 5
\* Largest number of adjacent vertex pairs of an input graph that has
\* parallel edges.
MaxParallelPairs == 3
\* Largest multiplicity of an edge of an input graph.
MaxMult == 2
\* Largest number of vertices of a graph handed directly to ic_compression.
MaxCompN == 4
\* Largest budget k the environment hands to get_fbvs_max_size.
MaxK == 3

\* ------------------------------------------------- the graph collaborator
\* A multigraph: n is the vertex set, e maps each present edge {u, v}
\* (u # v) to its multiplicity (>= 1).  Absent edges are not in DOMAIN e.
NoEdges == [p \in {} |-> 0]

EmptyGraph == [n |-> {}, e |-> NoEdges]

\* The elements of a finite set of integers in increasing order.
Sorted(S) ==
    [i \in 1..Cardinality(S) |->
        CHOOSE x \in S : Cardinality({y \in S : y < x}) = i - 1]

\* g.nodes(): the vertex list (a fresh list: a snapshot).
Nodes(g) == Sorted(g.n)

\* The edges of E, each as many times as it is there.
EdgeInstances(e, E) == UNION {{<<p, c>> : c \in 1..e[p]} : p \in E}

\* g.number_of_edges(), parallel edges counted.
EdgeCount(g) == Cardinality(EdgeInstances(g.e, DOMAIN g.e))

\* g.degree(v): incident edges, parallel edges counted.
Degree(g, v) ==
    Cardinality(EdgeInstances(g.e, {p \in DOMAIN g.e : v \in p}))

\* g.neighbors(v) / g[v]: the distinct neighbours, as a list.
Neighbors(g, v) == Sorted({u \in g.n : {u, v} \in DOMAIN g.e})

\* g.remove_nodes_from(S): absent vertices are ignored, edges cascade.
RemoveNodes(g, S) ==
    [n |-> g.n \ S,
     e |-> [p \in {q \in DOMAIN g.e : q \cap S = {}} |-> g.e[p]]]

\* g.add_edge(u, v): one more edge between u and v.
AddEdge(g, u, v) ==
    [n |-> g.n \cup {u, v},
     e |-> [p \in (DOMAIN g.e) \cup {{u, v}} |->
              IF p \in DOMAIN g.e
              THEN g.e[p] + (IF p = {u, v} THEN 1 ELSE 0)
              ELSE 1]]

\* g.subgraph(S): a new graph induced on the vertices of S that are in g.
Subgraph(g, S) == RemoveNodes(g, g.n \ S)

\* tools.utils.graph_minus(g, S): a copy of g without the vertices of S.
graph_minus(g, S) == RemoveNodes(g, S)

\* No edge of g leaves S.
Closed(g, S) == \A p \in DOMAIN g.e : p \subseteq S \/ p \cap S = {}

\* The connected components of g: the least non-empty closed vertex sets.
Components(g) ==
    {C \in (SUBSET g.n) \ {{}} :
        /\ Closed(g, C)
        /\ \A T \in (SUBSET C) \ {{}, C} : ~Closed(g, T)}

\* tools.utils.is_acyclic(g): every connected component has exactly
\* (vertices - 1) edges, parallel edges counted.
is_acyclic(g) ==
    \A C \in Components(g) :
        EdgeCount(Subgraph(g, C)) = Cardinality(C) - 1

\* ------------------------------------------------------- return values
\* Python's None and a returned set are kept apart by a tag.
None == [some |-> FALSE, val |-> {}]

Some(X) == [some |-> TRUE, val |-> X]

\* ------------------------------------------------------ list utilities
\* seq[:k] as a set.
Prefix(seq, k) == {seq[i] : i \in 1..(IF k < Len(seq) THEN k ELSE Len(seq))}

RECURSIVE PrependAll(_, _)
PrependAll(x, cs) ==
    IF cs = <<>> THEN <<>>
    ELSE <<{x} \cup Head(cs)>> \o PrependAll(x, Tail(cs))

RECURSIVE Combinations(_, _)
\* itertools.combinations(seq, i), each combination as a set, in order.
Combinations(seq, i) ==
    IF i = 0 THEN <<{}>>
    ELSE IF Len(seq) < i THEN <<>>
    ELSE PrependAll(Head(seq), Combinations(Tail(seq), i - 1))
         \o Combinations(Tail(seq), i)

RECURSIVE CompressionGuessesFrom(_, _, _)
CompressionGuessesFrom(zs, i, k) ==
    IF i > k THEN <<>>
    ELSE Combinations(zs, i) \o CompressionGuessesFrom(zs, i + 1, k)

\* The subsets xz that ic_compression tries, in the order it tries them:
\* for i in range(0, k + 1): for xz in itertools.combinations(z, i).
CompressionGuesses(z, k) == CompressionGuessesFrom(Sorted(z), 0, k)

\* The first element of seq satisfying P, as a one-element list, or <<>>
\* when there is none (a for loop that stops at its first hit).
FirstSuchThat(seq, P(_)) ==
    LET I == {i \in 1..Len(seq) : P(seq[i])}
    IN  IF I = {} THEN <<>>
        ELSE <<seq[CHOOSE i \in I : \A j \in I : i <= j]>>

\* X is a feedback vertex set of g: g minus X is acyclic.
IsFVS(g, X) == is_acyclic(graph_minus(g, X))

\* The least size of a feedback vertex set of g, by brute force over all
\* vertex subsets.
MinFVS(g) ==
    CHOOSE s \in 0..Cardinality(g.n) :
        /\ \E Y \in SUBSET g.n : Cardinality(Y) = s /\ IsFVS(g, Y)
        /\ \A Y \in SUBSET g.n : IsFVS(g, Y) => Cardinality(Y) >= s

\* ------------------------------------------------------------- the state
VARIABLES
    input,    \* what the caller asked for: [mode, g, z, k]; never changes
    stack,    \* the call stack, innermost frame last
    heap,     \* the graph objects alive; heap[1] is the caller's graph
    status,   \* "running", "returned" or "raised" (the top-level call)
    err,      \* the exception that ended the top-level call, or ""
    kcur,     \* the budget of the current top-level call
    result,   \* what the last finished top-level call returned
    prev      \* outcome of the top-level call before it: [status, res]

vars == <<input, stack, heap, status, err, kcur, result, prev>>

\* A frame: the function, its position, its arguments and its locals.
\* g is the heap index of the graph argument; own says that the caller
\* built that graph for this call (a copy), so it dies with the frame.
Frame(fn, g, own, k, ws) ==
    [fn |-> fn, pc |-> "start", g |-> g, own |-> own, k |-> k,
     w |-> IF fn = "fvs_disjoint" THEN ws ELSE {},
     z |-> IF fn = "ic_compression" THEN ws ELSE {},
     nodes |-> <<>>, node_set |-> {}, soln |-> {},
     soln_redux |-> {}, i |-> 0, j |-> 0, h |-> EmptyGraph,
     reduction_applied |-> FALSE, cur |-> <<>>, x |-> 0, res |-> None]

Top == stack[Len(stack)]

Caller == stack[Len(stack) - 1]

\* The stack with its innermost frame replaced by f.
WithTop(f) == [stack EXCEPT ![Len(stack)] = f]

\* The frame f at its return statement, returning r.
Ret(f, r) == [f EXCEPT !.pc = "ret", !.res = r]

\* The stack after the innermost call returned and its caller became c.
ReturnTo(c) == Append(SubSeq(stack, 1, Len(stack) - 2), c)

\* The heap after the innermost frame is popped: a graph built for the
\* call is garbage once the call returns.
Freed == IF Top.own THEN SubSeq(heap, 1, Len(heap) - 1) ELSE heap

\* A step inside the running top-level call.
Step(s, hp) ==
    /\ stack' = s
    /\ heap' = hp
    /\ UNCHANGED <<input, status, err, kcur, result, prev>>

\* An uncaught exception: it unwinds the whole stack.
Raise(e) ==
    /\ stack' = <<>>
    /\ heap' = <<heap[1]>>
    /\ status' = "raised"
    /\ err' = e
    /\ result' = None
    /\ UNCHANGED <<input, kcur, prev>>

\* What a handler does: the stack and heap it leaves, or the exception it
\* raises.
Ok(s, hp) == [err |-> "", stack |-> s, heap |-> hp]

Err(e) == [err |-> e, stack |-> <<>>, heap |-> <<>>]

Do(outcome) ==
    IF outcome.err # ""
    THEN Raise(outcome.err)
    ELSE Step(outcome.stack, outcome.heap)

Running(fn, pc) ==
    /\ status = "running"
    /\ stack # <<>>
    /\ Top.fn = fn
    /\ Top.pc = pc

\* The innermost call has returned to a caller fn waiting at pc.
Returned(fn, pc) ==
    /\ status = "running"
    /\ Len(stack) >= 2
    /\ Top.pc = "ret"
    /\ Caller.fn = fn
    /\ Caller.pc = pc

\* ------------------------------------------------------------- the inputs
VertexPairs(V) == {p \in SUBSET V : Cardinality(p) = 2}

\* The graph on 1..n with m[p] edges between the two vertices of p.
MkGraph(n, m) ==
    [n |-> 1..n,
     e |-> [p \in {q \in VertexPairs(1..n) : m[q] > 0} |-> m[p]]]

\* Input graphs: all simple graphs on up to MaxN vertices, and the graphs
\* with parallel edges that have at most MaxParallelPairs adjacent pairs.
GraphsOn(n) ==
    {MkGraph(n, m) : m \in
        {f \in [VertexPairs(1..n) -> 0..MaxMult] :
            \/ \A p \in VertexPairs(1..n) : f[p] <= 1
            \/ Cardinality({p \in VertexPairs(1..n) : f[p] > 0})
                 <= MaxParallelPairs}}

InputGraphs == UNION {GraphsOn(n) : n \in 0..MaxN}

Inputs ==
    {[mode |-> md, g |-> gr, z |-> {}, k |-> 0] :
        md \in {"get_fbvs", "get_fbvs_max_size"}, gr \in InputGraphs}
    \cup
    UNION {{[mode |-> "ic_compression", g |-> gr, z |-> zz,
             k |-> Cardinality(zz) - 1] :
              zz \in {y \in SUBSET gr.n : y # {} /\ IsFVS(gr, y)}} :
           gr \in UNION {GraphsOn(n) : n \in 0..MaxCompN}}

\* The frame of a top-level call of mode md with budget k.
EntryFrame(md, z, k) == Frame(md, 1, FALSE, k, z)

Init ==
    /\ input \in Inputs
    /\ stack = <<EntryFrame(input.mode, input.z, input.k)>>
    /\ heap = <<input.g>>
    /\ status = "running"
    /\ err = ""
    /\ kcur = input.k
    /\ result = None
    /\ prev = [status |-> "none", res |-> None]

\* ------------------------------------------------------------- get_fbvs
\* if is_acyclic(graph): return set()
\* MultiGraph(graph) (lines 25-26) keeps the vertices and the edges with
\* their multiplicities, which is all a graph value holds here; the calls
\* below never change their graph argument, so the copy is not tracked.
get_fbvs_start ==
    IF is_acyclic(heap[Top.g])
    THEN Ok(WithTop(Ret(Top, Some({}))), heap)
    ELSE Ok(WithTop([Top EXCEPT !.pc = "loop", !.i = 1]), heap)

FbvsStart ==
    /\ Running("get_fbvs", "start")
    /\ \E outcome \in {get_fbvs_start} : Do(outcome)

\* for i in range(1, graph.number_of_nodes()):
\*     result = self.get_fbvs_max_size(graph, i)
\* Falling out of the loop returns None.
get_fbvs_loop ==
    IF Top.i < Cardinality(heap[Top.g].n)
    THEN Ok(Append(WithTop([Top EXCEPT !.pc = "wait"]),
                     Frame("get_fbvs_max_size", Top.g, FALSE, Top.i, {})),
              heap)
    ELSE Ok(WithTop(Ret(Top, None)), heap)

FbvsLoop ==
    /\ Running("get_fbvs", "loop")
    /\ \E outcome \in {get_fbvs_loop} : Do(outcome)

\* if result is not None: return result
get_fbvs_after ==
    IF Top.res.some
    THEN Ok(ReturnTo(Ret(Caller, Top.res)), Freed)
    ELSE Ok(ReturnTo([Caller EXCEPT !.pc = "loop", !.i = @ + 1]), Freed)

FbvsAfter ==
    /\ Returned("get_fbvs", "wait")
    /\ \E outcome \in {get_fbvs_after} : Do(outcome)

\* ---------------------------------------------------- get_fbvs_max_size
\* A faulty base case, for comparison: one vertex more than g.nodes()[:k].
BaseSolutionTooLong(g, k) == Prefix(Nodes(g), k + 1)

\* set(g.nodes()[:k])
BaseSolution(g, k) == Prefix(Nodes(g), k)

\* if len(g) <= k + 2: return set(g.nodes()[:k])
\* otherwise node_set = set(nodes[:(k + 2)]), soln = set(nodes[:k]).
get_fbvs_max_size_start ==
    LET g == heap[Top.g]
        k == Top.k
    IN  IF Cardinality(g.n) <= k + 2
        THEN Ok(WithTop(Ret(Top, Some(BaseSolution(g, k)))), heap)
        ELSE Ok(WithTop([Top EXCEPT !.pc = "loop",
                                      !.nodes = Nodes(g),
                                      !.node_set = Prefix(Nodes(g), k + 2),
                                      !.soln = Prefix(Nodes(g), k),
                                      !.i = k + 2]),
                  heap)

MsStart ==
    /\ Running("get_fbvs_max_size", "start")
    /\ \E outcome \in {get_fbvs_max_size_start} : Do(outcome)

\* One iteration of for i in range(k + 2, len(nodes)), up to the call of
\* ic_compression(g.subgraph(node_set), soln, k); after the loop,
\* return soln.
get_fbvs_max_size_loop ==
    LET f == Top
        k == f.k
    IN  IF f.i >= Len(f.nodes)
        THEN Ok(WithTop(Ret(f, Some(f.soln))), heap)
        ELSE LET v == f.nodes[f.i + 1]
                 soln == f.soln \cup {v}
                 node_set == f.node_set \cup {v}
                 f2 == [f EXCEPT !.soln = soln, !.node_set = node_set]
             IN  IF Cardinality(soln) < k + 1
                 THEN Ok(WithTop([f2 EXCEPT !.i = @ + 1]), heap)
                 ELSE IF Cardinality(soln) # k + 1
                 THEN Err("assert len(soln) == k + 1")
                 ELSE IF Cardinality(node_set) # f.i + 1
                 THEN Err("assert len(node_set) == i + 1")
                 ELSE Ok(Append(WithTop([f2 EXCEPT !.pc = "wait"]),
                                  Frame("ic_compression", Len(heap) + 1,
                                        TRUE, k, soln)),
                           Append(heap, Subgraph(heap[f.g], node_set)))

MsLoop ==
    /\ Running("get_fbvs_max_size", "loop")
    /\ \E outcome \in {get_fbvs_max_size_loop} : Do(outcome)

\* if new_soln is None: return None
\* soln = new_soln; assert len(soln) <= k
get_fbvs_max_size_after ==
    IF ~Top.res.some
    THEN Ok(ReturnTo(Ret(Caller, None)), Freed)
    ELSE IF Cardinality(Top.res.val) > Caller.k
    THEN Err("assert len(soln) <= k")
    ELSE Ok(ReturnTo([Caller EXCEPT !.pc = "loop", !.i = @ + 1,
                                      !.soln = Top.res.val]),
              Freed)

MsAfter ==
    /\ Returned("get_fbvs_max_size", "wait")
    /\ \E outcome \in {get_fbvs_max_size_after} : Do(outcome)

\* -------------------------------------------------------- ic_compression
\* A faulty return, for comparison: the guess xz is forgotten.
CompressionResultWithoutGuess(x, xz) == x

\* return x.union(xz)
CompressionResult(x, xz) == x \cup xz

\* assert (len(z) == k + 1)
ic_compression_start ==
    IF Cardinality(Top.z) # Top.k + 1
    THEN Err("assert len(z) == k + 1")
    ELSE Ok(WithTop([Top EXCEPT !.pc = "loop", !.j = 1]), heap)

CompStart ==
    /\ Running("ic_compression", "start")
    /\ \E outcome \in {ic_compression_start} : Do(outcome)

\* The next guess xz of the two nested loops:
\* x = self.fvs_disjoint(graph_minus(g, xz), z.difference(xz), k - i);
\* with the guesses exhausted, return None.
ic_compression_loop(guesses) ==
    LET f == Top
    IN  IF f.j > Len(guesses)
        THEN Ok(WithTop(Ret(f, None)), heap)
        ELSE LET xz == guesses[f.j]
             IN  Ok(Append(WithTop([f EXCEPT !.pc = "wait"]),
                             Frame("fvs_disjoint", Len(heap) + 1, TRUE,
                                   f.k - Cardinality(xz), f.z \ xz)),
                      Append(heap, graph_minus(heap[f.g], xz)))

CompLoop ==
    /\ Running("ic_compression", "loop")
    /\ \E guesses \in {CompressionGuesses(Top.z, Top.k)} :
         \E outcome \in {ic_compression_loop(guesses)} : Do(outcome)

\* if x is not None: return x.union(xz)
ic_compression_after(xz) ==
        IF Top.res.some
        THEN Ok(ReturnTo(Ret(Caller,
                     Some(CompressionResult(Top.res.val, xz)))), Freed)
        ELSE Ok(ReturnTo([Caller EXCEPT !.pc = "loop", !.j = @ + 1]),
                  Freed)

CompAfter ==
    /\ Returned("ic_compression", "wait")
    /\ \E xz \in {CompressionGuesses(Caller.z, Caller.k)[Caller.j]} :
         \E outcome \in {ic_compression_after(xz)} : Do(outcome)

\* ------------------------------------------------------ apply_reductions
\* A faulty test, for comparison: degree 2 vertices are deleted as well.
Reduction1AppliesUpToTwo(g, v) == Degree(g, v) <= 2

\* if g.degree(v) <= 1
Reduction1Applies(g, v) == Degree(g, v) <= 1

\* reduction1, one iteration of for v in g.nodes(): the list is the
\* snapshot taken when the loop began (cur holds what is left of it);
\* every vertex of g is visited, protected or not.
\*     g.remove_node(v); h.remove_nodes_from([v]); changed = True
reduction1 ==
    LET f == Top
        g == heap[f.g]
    IN  IF f.cur = <<>>
        THEN Ok(WithTop([f EXCEPT !.pc = "r2"]), heap)
        ELSE LET v == Head(f.cur)
                 rest == Tail(f.cur)
                 pc2 == IF rest = <<>> THEN "r2" ELSE "r1"
             IN  IF Reduction1Applies(g, v)
                 THEN Ok(WithTop([f EXCEPT
                               !.pc = pc2, !.cur = rest,
                               !.h = RemoveNodes(f.h, {v}),
                               !.reduction_applied = TRUE]),
                           [heap EXCEPT ![f.g] = RemoveNodes(g, {v})])
                 ELSE Ok(WithTop([f EXCEPT !.pc = pc2, !.cur = rest]),
                           heap)

R1Step ==
    /\ Running("fvs_disjoint", "r1")
    /\ \E outcome \in {reduction1} : Do(outcome)

\* reduction2: the first v of h.nodes() with G[W + v] cyclic is removed
\* from g and h, joins the forced set and costs one unit of budget.
Reduction2Target ==
    FirstSuchThat(Nodes(Top.h),
        LAMBDA v : ~is_acyclic(Subgraph(heap[Top.g], Top.w \cup {v})))

reduction2(hit) ==
    LET f == Top
        g == heap[f.g]
    IN  IF hit = <<>>
        THEN Ok(WithTop([f EXCEPT !.pc = "r3"]), heap)
        ELSE Ok(WithTop([f EXCEPT
                      !.pc = "r3",
                      !.k = @ - 1,
                      !.soln_redux = @ \cup {hit[1]},
                      !.h = RemoveNodes(f.h, {hit[1]}),
                      !.reduction_applied = TRUE]),
                  [heap EXCEPT ![f.g] = RemoveNodes(g, {hit[1]})])

R2Step ==
    /\ Running("fvs_disjoint", "r2")
    /\ \E hit \in {Reduction2Target} :
         \E outcome \in {reduction2(hit)} : Do(outcome)

\* A faulty short-circuit, for comparison: v stays in the graph.
Reduction3KeepsVertex(g, v, n1, n2) == AddEdge(g, n1, n2)

\* g.remove_node(v); g.add_edge(n1, n2)
Reduction3Graph(g, v, n1, n2) == AddEdge(RemoveNodes(g, {v}), n1, n2)

\* reduction3 and the end of the pass.  The first v of h.nodes() with
\* degree 2 in g and a neighbour in h is short-circuited; unpacking
\* [n1, n2] = g.neighbors(v) raises ValueError unless v has exactly two
\* distinct neighbours.  Then: if not reduction_applied: return k, x;
\* otherwise the next pass begins with reduction1 on a new snapshot.
Reduction3Target ==
    FirstSuchThat(Nodes(Top.h),
        LAMBDA v : /\ Degree(heap[Top.g], v) = 2
                   /\ Len(Neighbors(Top.h, v)) >= 1)

reduction3(hit) ==
    LET f == Top
        g == heap[f.g]
    IN  IF hit = <<>>
        THEN IF f.reduction_applied
             THEN Ok(WithTop([f EXCEPT !.pc = "r1",
                                         !.reduction_applied = FALSE,
                                         !.cur = Nodes(g)]), heap)
             ELSE Ok(WithTop([f EXCEPT !.pc = "branch"]), heap)
        ELSE LET v == hit[1]
                 nb == Neighbors(g, v)
             IN  IF Len(nb) # 2
                 THEN Err("ValueError: [n1, n2] = g.neighbors(v)")
                 ELSE LET g2 == Reduction3Graph(g, v, nb[1], nb[2])
                          h1 == RemoveNodes(f.h, {v})
                          h2 == IF nb[1] \notin f.w /\ nb[2] \notin f.w
                                THEN AddEdge(h1, nb[1], nb[2])
                                ELSE h1
                      IN  Ok(WithTop([f EXCEPT
                                   !.pc = "r1",
                                   !.h = h2,
                                   !.reduction_applied = FALSE,
                                   !.cur = Nodes(g2)]),
                               [heap EXCEPT ![f.g] = g2])

R3Step ==
    /\ Running("fvs_disjoint", "r3")
    /\ \E hit \in {Reduction3Target} :
         \E outcome \in {reduction3(hit)} : Do(outcome)

\* ---------------------------------------------------------- fvs_disjoint
\* if not is_acyclic(g.subgraph(w)): return None
\* otherwise apply_reductions begins: h = graph_minus(g, w), x = set().
fvs_disjoint_start ==
    LET f == Top
        g == heap[f.g]
    IN  IF ~is_acyclic(Subgraph(g, f.w))
        THEN Ok(WithTop(Ret(f, None)), heap)
        ELSE Ok(WithTop([f EXCEPT !.pc = "r1",
                                    !.h = graph_minus(g, f.w),
                                    !.soln_redux = {},
                                    !.reduction_applied = FALSE,
                                    !.cur = Nodes(g)]), heap)

DjStart ==
    /\ Running("fvs_disjoint", "start")
    /\ \E outcome \in {fvs_disjoint_start} : Do(outcome)

\* A faulty left branch, for comparison: x is removed from the caller's
\* own graph object, which is handed on.
LeftBranchInPlace(hp, gid, x) ==
    [heap |-> [hp EXCEPT ![gid] = RemoveNodes(@, {x})],
     g |-> gid, own |-> FALSE]

\* self.fvs_disjoint(graph_minus(g, {x}), w, k - 1): the graph argument
\* is a new object.
LeftBranch(hp, gid, x) ==
    [heap |-> Append(hp, graph_minus(hp[gid], {x})),
     g |-> Len(hp) + 1, own |-> TRUE]

\* From the return of apply_reductions to the call of the left branch:
\* if k < 0: return None; if len(g) == 0: return soln_redux;
\* x = the first vertex of h = graph_minus(g, w) with h.degree(v) <= 1;
\* assert x is not None; then the left branch (G - {x}, W, k - 1).
BranchVertex(h) == FirstSuchThat(Nodes(h), LAMBDA v : Degree(h, v) <= 1)

fvs_disjoint_branch(hit) ==
    LET f == Top
        g == heap[f.g]
    IN  IF f.k < 0
        THEN Ok(WithTop(Ret(f, None)), heap)
        ELSE IF Cardinality(g.n) = 0
        THEN Ok(WithTop(Ret(f, Some(f.soln_redux))), heap)
        ELSE IF hit = <<>>
        THEN Err("assert x is not None")
        ELSE LET call == LeftBranch(heap, f.g, hit[1])
             IN  Ok(Append(WithTop([f EXCEPT !.pc = "waitA",
                                               !.x = hit[1]]),
                             Frame("fvs_disjoint", call.g, call.own,
                                   f.k - 1, f.w)),
                      call.heap)

DjBranch ==
    /\ Running("fvs_disjoint", "branch")
    /\ \E h \in {graph_minus(heap[Top.g], Top.w)} :
         \E hit \in {BranchVertex(h)} :
           \E outcome \in {fvs_disjoint_branch(hit)} : Do(outcome)

\* if soln_left is not None: return soln_redux.union(soln_left).union({x})
\* otherwise the right branch (G, W + x, k), on the caller's own graph.
fvs_disjoint_after_left ==
    LET c == Caller
    IN  IF Top.res.some
        THEN Ok(ReturnTo(Ret(c,
                     Some(c.soln_redux \cup Top.res.val \cup {c.x}))),
                  Freed)
        ELSE Ok(Append(ReturnTo([c EXCEPT !.pc = "waitB"]),
                         Frame("fvs_disjoint", c.g, FALSE, c.k,
                               c.w \cup {c.x})),
                  Freed)

DjAfterA ==
    /\ Returned("fvs_disjoint", "waitA")
    /\ \E outcome \in {fvs_disjoint_after_left} : Do(outcome)

\* if soln_right is not None: return soln_redux.union(soln_right)
\* return None
fvs_disjoint_after_right ==
    IF Top.res.some
    THEN Ok(ReturnTo(Ret(Caller,
                 Some(Caller.soln_redux \cup Top.res.val))), Freed)
    ELSE Ok(ReturnTo(Ret(Caller, None)), Freed)

DjAfterB ==
    /\ Returned("fvs_disjoint", "waitB")
    /\ \E outcome \in {fvs_disjoint_after_right} : Do(outcome)

\* -------------------------------------------------------- the environment
\* The top-level call returns to its caller.
TopReturn ==
    /\ status = "running"
    /\ Len(stack) = 1
    /\ Top.pc = "ret"
    /\ stack' = <<>>
    /\ status' = "returned"
    /\ result' = Top.res
    /\ UNCHANGED <<input, heap, err, kcur, prev>>

\* The caller of get_fbvs_max_size asks again, on the same graph, with
\* the next larger budget (an exception of the call before is caught).
NextBudget ==
    /\ input.mode = "get_fbvs_max_size"
    /\ status \in {"returned", "raised"}
    /\ kcur < MaxK
    /\ prev' = [status |-> status, res |-> result]
    /\ kcur' = kcur + 1
    /\ stack' = <<EntryFrame(input.mode, input.z, kcur + 1)>>
    /\ status' = "running"
    /\ err' = ""
    /\ result' = None
    /\ UNCHANGED <<input, heap>>

Next ==
    \/ FbvsStart
    \/ FbvsLoop
    \/ FbvsAfter
    \/ MsStart
    \/ MsLoop
    \/ MsAfter
    \/ CompStart
    \/ CompLoop
    \/ CompAfter
    \/ DjStart
    \/ R1Step
    \/ R2Step
    \/ R3Step
    \/ DjBranch
    \/ DjAfterA
    \/ DjAfterB
    \/ TopReturn
    \/ NextBudget

Spec == Init /\ [][Next]_vars

\* The program is sequential and deterministic: a step that can be taken
\* is taken.
FairSpec == Init /\ [][Next]_vars /\ WF_vars(Next)

\* No call is in progress and none will be made.
Halted ==
    /\ status \in {"returned", "raised"}
    /\ input.mode = "get_fbvs_max_size" => kcur = MaxK

\* ================================================================ claims
\* The innermost frame is a call of fn that has just computed its return
\* value (Top.res), its arguments still in the frame.
AtReturn(fn) ==
    /\ status = "running"
    /\ stack # <<>>
    /\ Top.fn = fn
    /\ Top.pc = "ret"

\* C1: the set returned by get_fbvs(G) is a subset of V(G) whose removal
\* leaves G acyclic, for every input graph, parallel edges included.
C1_ReturnsFeedbackVertexSet ==
    (input.mode = "get_fbvs" /\ status = "returned") =>
        /\ result.some
        /\ result.val \subseteq input.g.n
        /\ IsFVS(input.g, result.val)

\* C2: the size of the set returned by get_fbvs(G) is the least size of a
\* feedback vertex set of G, as found by brute force over vertex subsets.
C2_ReturnsMinimumSize ==
    (input.mode = "get_fbvs" /\ status = "returned") =>
        /\ result.some
        /\ Cardinality(result.val) = MinFVS(input.g)

\* C3: get_fbvs_max_size(G, k) returns None or a set X with X a subset of
\* V(G), |X| <= k and G - X acyclic.
C3_BoundedResultIsValid ==
    (AtReturn("get_fbvs_max_size") /\ Top.res.some) =>
        /\ Top.res.val \subseteq heap[Top.g].n
        /\ Cardinality(Top.res.val) <= Top.k
        /\ IsFVS(heap[Top.g], Top.res.val)

\* C4 as stated: with |V(G)| <= k + 2, get_fbvs_max_size(G, k) returns a
\* set of size exactly k.
C4_BaseCaseSizeExactlyK ==
    (AtReturn("get_fbvs_max_size")
        /\ Cardinality(heap[Top.g].n) <= Top.k + 2) =>
        /\ Top.res.some
        /\ Cardinality(Top.res.val) = Top.k

\* C4 amended: with |V(G)| <= k + 2, get_fbvs_max_size(G, k) returns the
\* first min(k, |V(G)|) vertices of G: exactly k of them when |V(G)| >= k,
\* and all of V(G) when |V(G)| < k.
C4_BaseCaseSizeMinOfKAndN ==
    (AtReturn("get_fbvs_max_size")
        /\ Cardinality(heap[Top.g].n) <= Top.k + 2) =>
        LET n == Cardinality(heap[Top.g].n)
        IN  /\ Top.res.some
            /\ Top.res.val \subseteq heap[Top.g].n
            /\ Cardinality(Top.res.val) = (IF Top.k <= n THEN Top.k ELSE n)
            /\ \A u \in Top.res.val : \A v \in heap[Top.g].n :
                   v < u => v \in Top.res.val

\* C4 witness: a base-case return with fewer vertices than the budget.
C4_Witness ==
    /\ AtReturn("get_fbvs_max_size")
    /\ Cardinality(heap[Top.g].n) >= 1
    /\ Cardinality(heap[Top.g].n) < Top.k
    /\ Top.res.val = heap[Top.g].n

\* C5: if get_fbvs_max_size(G, k) returns a solution then so does
\* get_fbvs_max_size(G, k + 1).
C5_MonotoneInBudget ==
    (/\ input.mode = "get_fbvs_max_size"
     /\ status \in {"returned", "raised"}
     /\ prev.status = "returned"
     /\ prev.res.some) =>
        (status = "returned" /\ result.some)

\* C6: for a feedback vertex set Z of G with |Z| = k + 1,
\* ic_compression(G, Z, k) returns None only if G has no feedback vertex
\* set of size <= k; otherwise it returns S united with a set disjoint
\* from Z, where S is the guess being tried, this set is a feedback vertex
\* set of G of size <= k, and no earlier guess could have succeeded: no
\* feedback vertex set of size <= k meets Z in fewer vertices.
C6_CompressionCorrect ==
    (/\ AtReturn("ic_compression")
     /\ Cardinality(Top.z) = Top.k + 1
     /\ Top.z \subseteq heap[Top.g].n
     /\ IsFVS(heap[Top.g], Top.z)) =>
        LET g == heap[Top.g]
            X == Top.res.val
            Small == {Y \in SUBSET g.n :
                        Cardinality(Y) <= Top.k /\ IsFVS(g, Y)}
        IN  IF ~Top.res.some
            THEN Small = {}
            ELSE /\ X \in Small
                 /\ Top.j \in 1..Len(CompressionGuesses(Top.z, Top.k))
                 /\ X \cap Top.z = CompressionGuesses(Top.z, Top.k)[Top.j]
                 /\ \A Y \in Small :
                        Cardinality(Y \cap Top.z) >= Cardinality(X \cap Top.z)

\* C6 witness: a compression of a feedback vertex set that succeeds on a
\* guess other than the first, with a non-empty guess.
C6_Witness ==
    /\ AtReturn("ic_compression")
    /\ IsFVS(heap[Top.g], Top.z)
    /\ Top.res.some
    /\ Top.j > 1
    /\ Top.res.val \cap Top.z # {}
    /\ Top.res.val \ Top.z # {}

\* C7: while the left branch of a call of fvs_disjoint runs, that call's
\* graph and protected set do not change; when the left branch has failed
\* the right branch gets that very graph object, as it stood when
\* apply_reductions returned and with x still in it, and W with x added.
C7_LeftBranchIsolated ==
    [][\A d \in 1..Len(stack) :
          (/\ stack[d].fn = "fvs_disjoint"
           /\ stack[d].pc \in {"branch", "waitA"}
           /\ d <= Len(stack')
           /\ stack'[d].pc \in {"waitA", "waitB"}) =>
              /\ stack'[d].g = stack[d].g
              /\ heap'[stack[d].g] = heap[stack[d].g]
              /\ stack'[d].w = stack[d].w
              /\ stack'[d].pc = "waitB" =>
                    /\ Len(stack') = d + 1
                    /\ stack'[d + 1].g = stack[d].g
                    /\ stack'[d + 1].w = stack[d].w \cup {stack[d].x}
                    /\ stack'[d + 1].k = stack[d].k
                    /\ stack[d].x \in heap'[stack[d].g].n]_vars

\* C7 witness: a left branch that removed x and was reduced further has
\* failed, and the right branch has been entered.
C7_Witness ==
    /\ Running("fvs_disjoint", "start")
    /\ Len(stack) >= 2
    /\ Caller.fn = "fvs_disjoint"
    /\ Caller.pc = "waitB"
    /\ Top.g = Caller.g
    /\ Caller.x \in heap[Top.g].n

\* A step of reduction1 that removes the vertex v it is looking at.
R1Removes(v) ==
    /\ Running("fvs_disjoint", "r1")
    /\ Top.cur # <<>>
    /\ v = Head(Top.cur)
    /\ status' = "running"
    /\ v \in heap[Top.g].n
    /\ v \notin heap'[Top.g].n

\* The frame of the step: reduction1 leaves the budget and the forced set
\* alone, and the vertex is gone from g and from h.
R1Frame(v) ==
    /\ heap'[Top.g] = RemoveNodes(heap[Top.g], {v})
    /\ stack'[Len(stack)].h = RemoveNodes(Top.h, {v})
    /\ v \notin stack'[Len(stack)].h.n
    /\ stack'[Len(stack)].k = Top.k
    /\ stack'[Len(stack)].soln_redux = Top.soln_redux
    /\ stack'[Len(stack)].w = Top.w

\* C8 as stated: reduction1 removes a vertex only if it is in the residual
\* H = V \ W and has degree <= 1 in G at that moment; it leaves G and H,
\* and neither k nor the forced set changes.
C8_R1RemovesOnlyResidualLeaves ==
    [][\A v \in 1..MaxN :
          R1Removes(v) =>
              /\ v \notin Top.w
              /\ v \in Top.h.n
              /\ Degree(heap[Top.g], v) <= 1
              /\ R1Frame(v)]_vars

\* C8 amended: reduction1 removes a vertex of G, protected (in W) or not,
\* only if it has degree <= 1 in G at that moment; it leaves G, and H if
\* it was there, and neither k, W nor the forced set changes; and every
\* vertex it passes over has degree >= 2.
C8_R1RemovesOnlyLeaves ==
    [][\A v \in 1..MaxN :
          /\ R1Removes(v) =>
                /\ Degree(heap[Top.g], v) <= 1
                /\ R1Frame(v)
          /\ (/\ Running("fvs_disjoint", "r1")
              /\ Top.cur # <<>>
              /\ v = Head(Top.cur)
              /\ v \in heap'[Top.g].n) =>
                 (Degree(heap[Top.g], v) >= 2 /\ heap' = heap)]_vars

\* C8 witness: in a call made by ic_compression (whose protected set lay
\* inside its graph), reduction1 has removed a protected vertex.
C8_Witness ==
    /\ Running("fvs_disjoint", "r1")
    /\ Len(stack) >= 2
    /\ Caller.fn = "ic_compression"
    /\ Top.reduction_applied
    /\ \E v \in Top.w : v \notin heap[Top.g].n

\* C9: in every call of fvs_disjoint reachable from get_fbvs_max_size, at
\* the branching step (budget >= 0 after the reductions, G not empty) the
\* residual H = G - W is a non-empty forest, so it has a vertex of degree
\* <= 1, and the assertion "x is not None" never fails.
C9_BranchingFindsLeaf ==
    (input.mode \in {"get_fbvs", "get_fbvs_max_size"}) =>
        /\ err # "assert x is not None"
        /\ (/\ Running("fvs_disjoint", "branch")
            /\ Top.k >= 0
            /\ heap[Top.g].n # {}) =>
               LET h == graph_minus(heap[Top.g], Top.w)
               IN  /\ h.n # {}
                   /\ is_acyclic(h)
                   /\ \E v \in h.n : Degree(h, v) <= 1

\* A reduction rule has fired: the graph of the innermost call changed
\* during apply_reductions.
ReductionFired ==
    /\ status = "running"
    /\ stack # <<>>
    /\ Top.fn = "fvs_disjoint"
    /\ Top.pc \in {"r1", "r2", "r3"}
    /\ status' = "running"
    /\ heap'[Top.g] # heap[Top.g]

\* C10: every call terminates (it returns or raises): each firing of a
\* reduction rule removes at least one vertex of G and adds none, the
\* left branch is entered with a strictly smaller budget, the right
\* branch with a strictly smaller residual G - W, and the whole run ends.
C10_Terminates ==
    /\ <>Halted
    /\ [][/\ ReductionFired =>
               /\ heap'[Top.g].n \subseteq heap[Top.g].n
               /\ heap'[Top.g].n # heap[Top.g].n
          /\ (Running("fvs_disjoint", "branch") /\ Len(stack') > Len(stack)) =>
               /\ stack'[Len(stack')].k = Top.k - 1
               /\ Top.k >= 0
          /\ (Returned("fvs_disjoint", "waitA") /\ Len(stack') = Len(stack)) =>
               LET b == stack'[Len(stack')]
               IN  /\ heap'[b.g] = heap[Caller.g]
                   /\ (heap'[b.g].n \ b.w) \subseteq (heap[Caller.g].n \ Caller.w)
                   /\ (heap'[b.g].n \ b.w) # (heap[Caller.g].n \ Caller.w)]_vars

\* C10 witness: both branches of a call of fvs_disjoint have run to their
\* end, reductions included.
C10_Witness ==
    /\ Returned("fvs_disjoint", "waitB")
    /\ Top.soln_redux # {}

====
